---- MODULE Spec2Model ----
(***************************************************************************)
(* Session state (BpiClient: account slot + cookie jar) and WBI signing    *)
(* (hour-bucketed key cache, key mixer, parameter canonicaliser) of        *)
(* bpi-rs, modelled from src/src/client.rs and src/src/utils/wbi.rs.       *)
(*                                                                         *)
(* Text is modelled as a sequence of one-character strings, so that        *)
(* splitting, trimming, filtering and encoding are computed as the code    *)
(* computes them.  Option<T> is a sequence of length at most one.          *)
(***************************************************************************)
EXTENDS Integers, Sequences, FiniteSets, TLC

\* ------------------------------------------------------------------ bounds
\* Wall-clock hours the model lets pass: the clock runs over 0..MaxHour.
MaxHour == 1
Hours == 0..MaxHour

\* The callers (threads / tasks); the sequential specifications run the
\* first one alone.
Threads == {1, 2}

\* ------------------------------------------------------------------- text
None == <<>>
Some(x) == <<x>>

\* s without its first n elements.
Drop(s, n) == IF n >= Len(s) THEN <<>> ELSE SubSeq(s, n + 1, Len(s))
\* The first n elements of s.
Take(s, n) == IF n >= Len(s) THEN s ELSE SubSeq(s, 1, n)

\* Index of the first occurrence of ch in s, 0 when there is none (str::find).
Find(s, ch) ==
    IF \E i \in 1..Len(s) : s[i] = ch
    THEN CHOOSE i \in 1..Len(s) : s[i] = ch /\ \A j \in 1..(i - 1) : s[j] # ch
    ELSE 0

\* Index of the last occurrence of ch in s, 0 when there is none.
RFind(s, ch) ==
    IF \E i \in 1..Len(s) : s[i] = ch
    THEN CHOOSE i \in 1..Len(s) : s[i] = ch /\ \A j \in (i + 1)..Len(s) : s[j] # ch
    ELSE 0

\* str::trim for the white space the model's alphabet has (the space).
RECURSIVE TrimStart(_)
TrimStart(s) == IF s # <<>> /\ Head(s) = " " THEN TrimStart(Tail(s)) ELSE s
RECURSIVE TrimEnd(_)
TrimEnd(s) ==
    IF s # <<>> /\ s[Len(s)] = " " THEN TrimEnd(SubSeq(s, 1, Len(s) - 1)) ELSE s
Trim(s) == TrimEnd(TrimStart(s))

\* -------------------------------------------------------------- bytes
\* The characters of the model's texts and their byte values (all ASCII, so a
\* character is one byte of the UTF-8 text).
ByteTable ==
    << <<" ", 32>>, <<"!", 33>>, <<"%", 37>>, <<"&", 38>>, <<"'", 39>>,
       <<"(", 40>>, <<")", 41>>, <<"*", 42>>, <<"-", 45>>, <<".", 46>>,
       <<"/", 47>>, <<"0", 48>>, <<"1", 49>>, <<"2", 50>>, <<"3", 51>>,
       <<"4", 52>>, <<"5", 53>>, <<"6", 54>>, <<"7", 55>>, <<"8", 56>>,
       <<"9", 57>>, <<";", 59>>, <<"=", 61>>, <<"A", 65>>, <<"B", 66>>,
       <<"C", 67>>, <<"D", 68>>, <<"E", 69>>, <<"F", 70>>, <<"Z", 90>>,
       <<"_", 95>>, <<"a", 97>>, <<"b", 98>>, <<"c", 99>>, <<"d", 100>>,
       <<"i", 105>>, <<"r", 114>>, <<"s", 115>>, <<"t", 116>>, <<"w", 119>>,
       <<"z", 122>>, <<"~", 126>> >>
Alphabet == {ByteTable[i][1] : i \in 1..Len(ByteTable)}
ByteOf == [ch \in Alphabet |->
              ByteTable[CHOOSE i \in 1..Len(ByteTable) : ByteTable[i][1] = ch][2]]
Byte(ch) == ByteOf[ch]

\* Ord on String as Rust compares it: byte by byte, a proper prefix first.
RECURSIVE StrLess(_, _)
StrLess(x, y) ==
    IF y = <<>> THEN FALSE
    ELSE IF x = <<>> THEN TRUE
    ELSE IF Byte(Head(x)) # Byte(Head(y)) THEN Byte(Head(x)) < Byte(Head(y))
    ELSE StrLess(Tail(x), Tail(y))

\* u64::to_string: the decimal digits of n.
Digits == <<"0", "1", "2", "3", "4", "5", "6", "7", "8", "9">>
RECURSIVE to_string(_)
to_string(n) ==
    IF n < 10 THEN <<Digits[n + 1]>> ELSE to_string(n \div 10) \o <<Digits[(n % 10) + 1]>>

\* ------------------------------------------------------------ KeyMixer
MIXIN_KEY_TAB ==
    <<46, 47, 18, 2, 53, 8, 23, 32, 15, 50, 10, 31, 58, 3, 45, 35, 27, 43, 5, 49,
      33, 9, 42, 19, 29, 28, 14, 39, 12, 38, 41, 13, 37, 48, 7, 16, 24, 55, 40,
      61, 26, 17, 0, 1, 60, 51, 30, 4, 22, 25, 54, 21, 56, 59, 6, 63, 57, 62, 11,
      36, 20, 34, 44, 52>>
MixinKeyLen == 32

\* get_mixin_key: the bytes of orig at the table's indices that are within
\* orig, in table order, cut to the first 32.  (Table indices count from 0.)
\* mixin_from(orig, lo, hi) is what the loop pushes for the table entries lo
\* to hi, put together from the two halves of that range.
RECURSIVE mixin_from(_, _, _)
mixin_from(orig, lo, hi) ==
    IF lo > hi THEN <<>>
    ELSE IF lo = hi
         THEN (IF MIXIN_KEY_TAB[lo] < Len(orig) THEN <<orig[MIXIN_KEY_TAB[lo] + 1]>> ELSE <<>>)
         ELSE LET mid == (lo + hi) \div 2
              IN  mixin_from(orig, lo, mid) \o mixin_from(orig, mid + 1, hi)
\* The key with a "0" filled in where the table's index is beyond orig.
get_mixin_key_zero_filled(orig) ==
    Take([i \in 1..Len(MIXIN_KEY_TAB) |->
             IF MIXIN_KEY_TAB[i] < Len(orig) THEN orig[MIXIN_KEY_TAB[i] + 1] ELSE "0"],
         MixinKeyLen)
get_mixin_key(orig) == Take(mixin_from(orig, 1, Len(MIXIN_KEY_TAB)), MixinKeyLen)

\* ---------------------------------------------------- ParamCanonicalizer
HexDigits == <<"0", "1", "2", "3", "4", "5", "6", "7", "8", "9", "A", "B", "C", "D", "E", "F">>
\* format!("%{:02X}", byte)
PercentByte(b) == <<"%", HexDigits[(b \div 16) + 1], HexDigits[(b % 16) + 1]>>

\* url_encode of one byte: letters, digits and - _ . ~ pass; the space is
\* %20; every other byte is %XX in upper-case hex.
url_encode_byte(ch) ==
    LET b == Byte(ch)
    IN  IF \/ (65 <= b /\ b <= 90) \/ (97 <= b /\ b <= 122) \/ (48 <= b /\ b <= 57)
           \/ ch \in {"-", "_", ".", "~"}
        THEN <<ch>>
        ELSE IF ch = " " THEN <<"%", "2", "0">>
        ELSE PercentByte(b)
RECURSIVE url_encode(_)
url_encode(s) == IF s = <<>> THEN <<>> ELSE url_encode_byte(Head(s)) \o url_encode(Tail(s))

\* value.chars().filter(|c| !"!'()*".contains(*c)).collect()
StripChars == {"!", "'", "(", ")", "*"}
\* The filter with '*' left out of its character list.
strip_value_no_star(value) == SelectSeq(value, LAMBDA c : c \notin {"!", "'", "(", ")"})
RECURSIVE strip_value(_)
strip_value(value) ==
    IF value = <<>> THEN <<>>
    ELSE (IF Head(value) \in StripChars THEN <<>> ELSE <<Head(value)>>)
             \o strip_value(Tail(value))

\* The names of a BTreeMap<String, String> (a function from names to
\* values), in the order its iterator yields them: ascending.
RECURSIVE SortedKeys(_)
SortedKeys(names) ==
    IF names = {} THEN <<>>
    ELSE LET m == CHOOSE x \in names : \A y \in names \ {x} : StrLess(x, y)
         IN  <<m>> \o SortedKeys(names \ {m})

\* BTreeMap::insert
MapInsert(m, name, value) ==
    [n \in DOMAIN m \cup {name} |-> IF n = name THEN value ELSE m[n]]

\* iter().map(|(k, v)| format!("{}={}", url_encode(k), url_encode(v))).join("&")
RECURSIVE JoinPairs(_, _)
JoinPairs(m, keys) ==
    IF keys = <<>> THEN <<>>
    ELSE url_encode(keys[1]) \o <<"=">> \o url_encode(m[keys[1]])
             \o (IF Len(keys) > 1 THEN <<"&">> ELSE <<>>)
             \o JoinPairs(m, Tail(keys))
canonical_query(m) == JoinPairs(m, SortedKeys(DOMAIN m))

\* format!("{:x}", md5::compute(text)): the digest as a term over its input
\* (a lower-case hex text of 32 characters in the program).
md5_hex(text) == <<"md5(">> \o text \o <<")">>

WTS == <<"w", "t", "s">>
W_RID == <<"w", "_", "r", "i", "d">>

\* enc_wbi: the map after wts is inserted, every value is stripped of !'()*
\* and w_rid, the digest of the canonical query followed by the mixin key,
\* is inserted.  now is SystemTime::now() in seconds.
enc_wbi_query(params, now) ==
    LET with_wts == MapInsert(params, WTS, to_string(now))
    IN  [n \in DOMAIN with_wts |-> strip_value(with_wts[n])]
\* enc_wbi with a '&' between the query and the mixin key.
enc_wbi_with_separator(params, img_key, sub_key, now) ==
    LET mixin_key == get_mixin_key(img_key \o sub_key)
        stripped == enc_wbi_query(params, now)
        query == canonical_query(stripped)
    IN  MapInsert(stripped, W_RID, md5_hex(query \o <<"&">> \o mixin_key))
enc_wbi(params, img_key, sub_key, now) ==
    LET mixin_key == get_mixin_key(img_key \o sub_key)
        stripped == enc_wbi_query(params, now)
        query == canonical_query(stripped)
    IN  MapInsert(stripped, W_RID, md5_hex(query \o mixin_key))

\* params.into_iter().map(..).collect::<BTreeMap>(): a later pair of the
\* same name replaces an earlier one.
RECURSIVE collect_map(_)
collect_map(pairs) ==
    IF pairs = <<>> THEN [n \in {} |-> <<>>]
    ELSE MapInsert(collect_map(SubSeq(pairs, 1, Len(pairs) - 1)),
                   pairs[Len(pairs)][1], pairs[Len(pairs)][2])

\* BTreeMap::into_iter().collect::<Vec<_>>(): the pairs in ascending name order.
into_pairs(m) == [i \in 1..Cardinality(DOMAIN m) |->
                     <<SortedKeys(DOMAIN m)[i], m[SortedKeys(DOMAIN m)[i]]>>]

\* The signed map handed back in the order the caller gave the names, with
\* wts and w_rid at the end.
sign_params_caller_order(pairs, img_key, sub_key, now) ==
    LET m == enc_wbi(collect_map(pairs), img_key, sub_key, now)
    IN  [i \in 1..Len(pairs) |-> <<pairs[i][1], m[pairs[i][1]]>>]
            \o << <<WTS, m[WTS]>>, <<W_RID, m[W_RID]>> >>

\* What get_wbi_sign2 returns for the caller's pairs once it has the keys.
sign_params(pairs, img_key, sub_key, now) ==
    into_pairs(enc_wbi(collect_map(pairs), img_key, sub_key, now))

\* ------------------------------------------------------------- the account
\* auth::Account: five strings.
Account(uid, ck, sess, jct, buvid) ==
    [dede_user_id |-> uid, dede_user_id_ckmd5 |-> ck, sessdata |-> sess,
     bili_jct |-> jct, buvid3 |-> buvid]

\* Account::is_complete (auth.rs is not among the sources): all five fields
\* are non-empty.
is_complete(a) ==
    /\ a.dede_user_id # <<>>
    /\ a.dede_user_id_ckmd5 # <<>>
    /\ a.sessdata # <<>>
    /\ a.bili_jct # <<>>
    /\ a.buvid3 # <<>>

\* The accounts callers submit.
AccA == Account(<<"1">>, <<"m">>, <<"s">>, <<"j">>, <<"v">>)
AccB == Account(<<"2">>, <<"n">>, <<"t">>, <<"k">>, <<"w">>)
\* Complete, with a ';' and outer white space inside field values.
AccW == Account(<<"1">>, <<"m">>, <<"s", ";", "x">>, <<" ", "j">>, <<"v">>)
\* Incomplete: exactly one field empty.
AccNoCk == [AccA EXCEPT !.dede_user_id_ckmd5 = <<>>]
AccNoJct == [AccB EXCEPT !.bili_jct = <<>>]
AccNoUid == [AccA EXCEPT !.dede_user_id = <<>>]
AccNoSess == [AccB EXCEPT !.sessdata = <<>>]
AccNoBuvid == [AccA EXCEPT !.buvid3 = <<>>]
AccEmpty == Account(<<>>, <<>>, <<>>, <<>>, <<>>)

CompleteAccounts == {AccA, AccB, AccW}
IncompleteAccounts == {AccNoCk, AccNoJct, AccNoUid, AccNoSess, AccNoBuvid, AccEmpty}
Accounts == CompleteAccounts \cup IncompleteAccounts

\* The two client objects: the process-global one of BpiClient::new() and one
\* made by BpiClient::new_local().
Clients == {"global", "local"}

\* HashMap::insert: the value of an existing key is replaced.
map_insert(m, key, value) ==
    [x \in DOMAIN m \cup {key} |-> IF x = key THEN value ELSE m[x]]

\* ---------------------------------------------------------- the cookie jar
\* The canonical cookie names, in the order load_cookies_from_account writes
\* them, and the Account field each one carries.
CookieNames == <<"DedeUserID", "DedeUserID__ckMd5", "SESSDATA", "bili_jct", "buvid3">>
NCookies == 5
CookieField(a, i) ==
    CASE i = 1 -> a.dede_user_id
      [] i = 2 -> a.dede_user_id_ckmd5
      [] i = 3 -> a.sessdata
      [] i = 4 -> a.bili_jct
      [] OTHER -> a.buvid3

\* format!("{}={}; Domain=.bilibili.com; Path=/", key, value).  The key and
\* the attribute words are single tokens of the text; the value is spelled
\* out character by character.
FormatCookie(key, value) ==
    <<key, "=">> \o value
        \o <<";", " ", "Domain", "=", ".bilibili.com", ";", " ", "Path", "=", "/">>

\* str::split(ch): the pieces of s between occurrences of ch.
RECURSIVE Split(_, _)
Split(s, ch) ==
    LET i == Find(s, ch)
    IN  IF i = 0 THEN <<s>> ELSE <<Take(s, i - 1)>> \o Split(Drop(s, i), ch)

\* The value of the last attribute named attr among the segments segs
\* (a later attribute replaces an earlier one), None when there is none.
RECURSIVE LastAttr(_, _)
LastAttr(segs, attr) ==
    IF segs = <<>> THEN None
    ELSE LET seg == segs[Len(segs)]
             i == Find(seg, "=")
         IN  IF i > 0 /\ Trim(Take(seg, i - 1)) = <<attr>>
             THEN Some(Trim(Drop(seg, i)))
             ELSE LastAttr(SubSeq(segs, 1, Len(segs) - 1), attr)

\* What Jar::add_cookie_str makes of a Set-Cookie text: the first
\* ';'-separated segment is name=value, split at its first '=', both sides
\* trimmed; the later segments are attributes.  None when the text is no
\* cookie (no '=', or an empty name).
ParseCookie(text) ==
    LET segs == Split(text, ";")
        kv == segs[1]
        i == Find(kv, "=")
        name == Trim(Take(kv, i - 1))
    IN  IF i = 0 \/ name = <<>> THEN None
        ELSE Some([name |-> name, value |-> Trim(Drop(kv, i)),
                   domain |-> LastAttr(Tail(segs), "Domain"),
                   path |-> LastAttr(Tail(segs), "Path")])

\* Hosts of the service and the cookie domain-match rule for them.
DomainMatches(host, domain) ==
    /\ host \in {"www.bilibili.com", "api.bilibili.com"}
    /\ domain = Some(<<".bilibili.com">>)

\* The jar j after Jar::add_cookie_str(text, url) for a URL of host: a text
\* that is no cookie, or whose Domain does not match host, is dropped; a
\* cookie replaces the one of the same name.
JarAdd(j, text, host) ==
    LET pc0 == ParseCookie(text)
    IN  IF pc0 = None \/ ~DomainMatches(host, pc0[1].domain) THEN j
        ELSE [n \in DOMAIN j \cup {pc0[1].name} |->
                 IF n = pc0[1].name THEN pc0[1].value ELSE j[n]]

\* add_cookie_pair: the jar after adding key=value for the site's root domain.
add_cookie_pair(j, key, value) == JarAdd(j, FormatCookie(key, value), "www.bilibili.com")

\* add_cookies over the five pairs of load_cookies_from_account, from pair i on.
RECURSIVE load_cookies_from(_, _, _)
load_cookies_from(j, a, i) ==
    IF i > NCookies THEN j
    ELSE load_cookies_from(add_cookie_pair(j, CookieNames[i], CookieField(a, i)), a, i + 1)
load_cookies_from_account(j, a) == load_cookies_from(j, a, 1)

EmptyJar == [n \in {} |-> <<>>]

\* ------------------------------------------------------------------ state
VARIABLES
    account,    \* BpiClient.account per client: Option<Account> behind the Mutex
    jar,        \* BpiClient.jar per client: cookie name -> value
    mutex,      \* holder of each client's account Mutex: Option<thread>
    pc,         \* where each thread is in the call it is running ("idle": in none)
    op,         \* the operation each thread called last
    self,       \* the client that call is on
    arg,        \* the Account that call was given
    cookie_str, \* the cookie string set_account_from_cookie_str was given
    k,          \* add_cookies: index of the next cookie pair to add
    ret,        \* what the last finished call returned
    pre,        \* the shared state when the call began (for frame conditions)
    clock,      \* the wall clock's hour, what Local::now() formats to
    WBI_KEY_MAP,\* the process-global key cache: key text -> raw key
    readers,    \* threads holding the cache's RwLock for reading
    writer,     \* the thread holding it for writing: Option<thread>
    s,          \* get_wbi_sign2: the hour text computed when the call began
    params,     \* get_wbi_sign2: the caller's (name, value) pairs
    img_key,    \* get_wbi_sign2: the image key it got (cache or fetch)
    sub_key,    \* get_wbi_sign2: the subtitle key it got
    fetched,    \* whether the call has sent its navigation request
    retry,      \* whether the call follows a failed signing call of its bucket
    signed,     \* per bucket, the keys of the first call that began, signed
                \* and returned within it: Option<<<img, sub>>>
    filler      \* per bucket, the client whose call inserted its entries last
                \* (kept only where the callers' inputs ask for it)

sessVars == <<account, jar, mutex>>
callVars == <<pc, op, self, arg, cookie_str, k, ret, pre>>
cacheVars == <<clock, WBI_KEY_MAP, readers, writer>>
wbiVars == <<s, params, img_key, sub_key, fetched, retry, signed, filler>>
vars == <<account, jar, mutex, pc, op, self, arg, cookie_str, k, ret, pre,
          clock, WBI_KEY_MAP, readers, writer,
          s, params, img_key, sub_key, fetched, retry, signed, filler>>

Snapshot == [account |-> account, jar |-> jar, cache |-> WBI_KEY_MAP]

\* ------------------------------------------------- reads of the session
\* get_account: a copy of the slot.
get_account(c) == account[c]

\* csrf: the active account's bili_jct, MissingCsrf when there is no account
\* or its bili_jct is empty.
\* csrf without the filter on an empty bili_jct, reading the session token.
csrf_of_sessdata(slot) ==
    IF slot # None THEN <<"Ok", slot[1].sessdata>> ELSE <<"Err", "MissingCsrf">>

csrf_of(slot) ==
    IF slot # None /\ slot[1].bili_jct # <<>>
    THEN <<"Ok", slot[1].bili_jct>>
    ELSE <<"Err", "MissingCsrf">>
csrf(c) == csrf_of(account[c])

\* has_login_cookies: jar.cookies(https://api.bilibili.com) is Some, which it
\* is when some cookie of the jar matches that host (all of them do: each was
\* added for Domain=.bilibili.com, Path=/).
has_login_cookies(c) == DOMAIN jar[c] # {}

\* --------------------------------------------------------- construction
\* BpiClient::new() in a test or debug build loads the test account through
\* set_account when account.toml gives one; new_local() starts anonymous.
TestAccounts == {None, Some(AccA)}

Init ==
    /\ \E ta \in TestAccounts :
          /\ account = [c \in Clients |->
                           IF c = "global" /\ ta # None /\ is_complete(ta[1])
                           THEN ta ELSE None]
          /\ jar = [c \in Clients |->
                       IF c = "global" /\ ta # None /\ is_complete(ta[1])
                       THEN load_cookies_from_account(EmptyJar, ta[1]) ELSE EmptyJar]
    /\ mutex = [c \in Clients |-> None]
    /\ pc = [t \in Threads |-> "idle"]
    /\ op = [t \in Threads |-> "none"]
    /\ self = [t \in Threads |-> "global"]
    /\ arg = [t \in Threads |-> AccEmpty]
    /\ cookie_str = [t \in Threads |-> <<>>]
    /\ k = [t \in Threads |-> 1]
    /\ ret = [t \in Threads |-> <<"none">>]
    /\ pre = [t \in Threads |-> None]
    /\ clock = 0
    /\ WBI_KEY_MAP = [x \in {} |-> <<>>]
    /\ readers = {}
    /\ writer = None
    /\ s = [t \in Threads |-> <<>>]
    /\ params = [t \in Threads |-> <<>>]
    /\ img_key = [t \in Threads |-> <<>>]
    /\ sub_key = [t \in Threads |-> <<>>]
    /\ fetched = [t \in Threads |-> FALSE]
    /\ retry = [t \in Threads |-> FALSE]
    /\ signed = [h \in Hours |-> None]
    /\ filler = [h \in Hours |-> None]

\* -------------------------------------------------------- set_account
\* What a specification lets callers submit: the clients they call, the
\* accounts they pass, and whether a call that overlaps no other keeps the
\* shared state of its beginning in pre.
\* For the signing calls: the parameter lists they pass, the seconds the
\* system clock may show, and the data the navigation endpoint may answer.
NavA == [img_url |-> <<"w", "/", "b", "/", "a", ".", "s">>,
         sub_url |-> <<"w", "/", "b", "/", "b", ".", "s">>]
\* An image URL with neither '/' nor '.', a subtitle URL with two dots.
NavB == [img_url |-> <<"c">>, sub_url |-> <<"/", "d", ".", "t", ".", "z">>]
ParamsA == << <<<<"b">>, <<"(", "1", ")">>>>, <<<<"a">>, <<"2">>>> >>
ParamsB == << <<<<"z">>, <<"z", "!">>>> >>

\* Cookie strings: all five names (the fields of AccB, with an unknown name
\* and a repeated one); and one that leaves DedeUserID__ckMd5 out.
CookieStrB ==
    <<"DedeUserID", "=", "2", ";", " ", "DedeUserID__ckMd5", "=", "n", ";",
      "SESSDATA", "=", "x", ";", " ", "lang", "=", "z", ";", " ",
      "bili_jct", "=", "k", ";", "buvid3", " ", "=", " ", "w", ";",
      "SESSDATA", "=", "t">>
CookieStrNoCk ==
    <<"DedeUserID", "=", "1", ";", "bili_jct", "=", "j", ";",
      "SESSDATA", "=", "s", ";", "buvid3", "=", "v">>

ConcIn == [clients |-> {"global"}, accounts |-> {AccA, AccB, AccNoCk, AccNoJct},
           cookie_strs |-> {CookieStrNoCk}, snap |-> FALSE, who |-> FALSE,
           params |-> {ParamsA}, wts |-> {1203}, nav |-> {NavA, NavB}]
SeqIn == [clients |-> Clients, accounts |-> Accounts,
          cookie_strs |-> {CookieStrB, CookieStrNoCk}, snap |-> TRUE, who |-> FALSE,
          params |-> {ParamsA, ParamsB}, wts |-> {1203}, nav |-> {NavA, NavB}]
SeqWbiIn == [clients |-> Clients, accounts |-> {AccA, AccNoCk},
             cookie_strs |-> {CookieStrNoCk}, snap |-> TRUE, who |-> FALSE,
             params |-> {ParamsA, ParamsB}, wts |-> {1203}, nav |-> {NavA, NavB}]

\* A call begins: thread t, idle, calls operation o on client c.
Begin(t, o, c, a, in) ==
    /\ pc[t] = "idle"
    /\ op' = [op EXCEPT ![t] = o]
    /\ self' = [self EXCEPT ![t] = c]
    /\ arg' = [arg EXCEPT ![t] = a]
    /\ pre' = [pre EXCEPT ![t] = IF in.snap THEN Some(Snapshot) ELSE None]

\* The call of thread t returns r.
Return(t, r) ==
    /\ pc' = [pc EXCEPT ![t] = "idle"]
    /\ ret' = [ret EXCEPT ![t] = r]

\* set_account without its completeness check.
set_account_enter_unchecked(t, o, c, a, in) ==
    /\ Begin(t, o, c, a, in)
    /\ k' = [k EXCEPT ![t] = 1]
    /\ pc' = [pc EXCEPT ![t] = "add_cookies"]
    /\ ret' = [ret EXCEPT ![t] = <<"none">>]
    /\ UNCHANGED <<sessVars, cacheVars, wbiVars>>

\* set_account with from_config's check of four fields in place of is_complete.
set_account_enter_four(t, o, c, a, in) ==
    /\ Begin(t, o, c, a, in)
    /\ k' = [k EXCEPT ![t] = 1]
    /\ IF a.dede_user_id # <<>> /\ a.sessdata # <<>> /\ a.bili_jct # <<>> /\ a.buvid3 # <<>>
       THEN /\ pc' = [pc EXCEPT ![t] = "add_cookies"]
            /\ ret' = [ret EXCEPT ![t] = <<"none">>]
       ELSE Return(t, <<"unit">>)
    /\ UNCHANGED <<sessVars, cacheVars, wbiVars>>

\* set_account, entered by thread t with account a (client.rs 110-119): an
\* incomplete account is logged and ignored; a complete one goes on to
\* load_cookies_from_account.
set_account_enter(t, o, c, a, in) ==
    /\ Begin(t, o, c, a, in)
    /\ k' = [k EXCEPT ![t] = 1]
    /\ IF is_complete(a)
       THEN /\ pc' = [pc EXCEPT ![t] = "add_cookies"]
            /\ ret' = [ret EXCEPT ![t] = <<"none">>]
       ELSE Return(t, <<"unit">>)
    /\ UNCHANGED <<sessVars, cacheVars, wbiVars>>

set_account(t, in) ==
    \E c \in in.clients, a \in in.accounts :
        /\ set_account_enter(t, "set_account", c, a, in)
        /\ cookie_str' = [cookie_str EXCEPT ![t] = <<>>]

\* One turn of the add_cookies loop: add_cookie_pair for pair k.  The account
\* Mutex is not held here.
add_cookies(t) ==
    /\ pc[t] = "add_cookies"
    /\ jar' = [jar EXCEPT ![self[t]] =
                  add_cookie_pair(@, CookieNames[k[t]], CookieField(arg[t], k[t]))]
    /\ k' = [k EXCEPT ![t] = IF k[t] = NCookies THEN 1 ELSE @ + 1]
    /\ pc' = [pc EXCEPT ![t] = IF k[t] = NCookies THEN "lock" ELSE "add_cookies"]
    /\ UNCHANGED <<account, mutex, op, self, arg, cookie_str, ret, pre, cacheVars, wbiVars>>

\* self.account.lock(): waits until the Mutex is free.
set_account_lock(t) ==
    /\ pc[t] = "lock"
    /\ mutex[self[t]] = None
    /\ mutex' = [mutex EXCEPT ![self[t]] = Some(t)]
    /\ pc' = [pc EXCEPT ![t] = "store"]
    /\ UNCHANGED <<account, jar, op, self, arg, cookie_str, k, ret, pre, cacheVars, wbiVars>>

\* *acc = Some(account); the guard is dropped and set_account returns.
set_account_store(t) ==
    /\ pc[t] = "store"
    /\ account' = [account EXCEPT ![self[t]] = Some(arg[t])]
    /\ mutex' = [mutex EXCEPT ![self[t]] = None]
    /\ Return(t, <<"unit">>)
    /\ UNCHANGED <<jar, op, self, arg, cookie_str, k, pre, cacheVars, wbiVars>>

\* ------------------------------------------------------- clear_account
\* clear_account takes the Mutex ...
clear_account(t, in) ==
    \E c \in in.clients :
        /\ Begin(t, "clear_account", c, AccEmpty, in)
        /\ cookie_str' = [cookie_str EXCEPT ![t] = <<>>]
        /\ mutex[c] = None
        /\ mutex' = [mutex EXCEPT ![c] = Some(t)]
        /\ pc' = [pc EXCEPT ![t] = "clear"]
        /\ ret' = [ret EXCEPT ![t] = <<"none">>]
        /\ UNCHANGED <<account, jar, k, cacheVars, wbiVars>>

\* A clear_cookies that empties the jar.
clear_cookies_all(j) == [x \in {} |-> <<>>]

\* clear_cookies: only logs; the jar has no way to be emptied.
clear_cookies(j) == j

\* A clear_account that calls clear_cookies and forgets the slot.
clear_account_store_cookies_only(t) ==
    /\ pc[t] = "clear"
    /\ jar' = [jar EXCEPT ![self[t]] = clear_cookies(@)]
    /\ mutex' = [mutex EXCEPT ![self[t]] = None]
    /\ Return(t, <<"unit">>)
    /\ UNCHANGED <<account, op, self, arg, cookie_str, k, pre, cacheVars, wbiVars>>

\* ... empties the slot, calls clear_cookies, drops the guard and returns.
clear_account_store(t) ==
    /\ pc[t] = "clear"
    /\ account' = [account EXCEPT ![self[t]] = None]
    /\ jar' = [jar EXCEPT ![self[t]] = clear_cookies(@)]
    /\ mutex' = [mutex EXCEPT ![self[t]] = None]
    /\ Return(t, <<"unit">>)
    /\ UNCHANGED <<op, self, arg, cookie_str, k, pre, cacheVars, wbiVars>>

\* ------------------------------------------- set_account_from_cookie_str
\* The map the loop over cookie_str.split(';') builds: each piece is trimmed
\* and, when it has a '=', inserted as trimmed key -> trimmed rest; a later
\* piece of the same key replaces an earlier one.  A piece without '=' is
\* skipped.
\* The loop keeping the first piece of a key instead of the last.
RECURSIVE cookie_map_first_wins(_)
cookie_map_first_wins(pieces) ==
    IF pieces = <<>> THEN [n \in {} |-> <<>>]
    ELSE LET after == cookie_map_first_wins(Tail(pieces))
             kv == Trim(Head(pieces))
             pos == Find(kv, "=")
         IN  IF pos = 0 THEN after
             ELSE map_insert(after, Trim(Take(kv, pos - 1)), Trim(Drop(kv, pos)))

RECURSIVE cookie_map_of(_)
cookie_map_of(pieces) ==
    IF pieces = <<>> THEN [n \in {} |-> <<>>]
    ELSE LET before == cookie_map_of(SubSeq(pieces, 1, Len(pieces) - 1))
             kv == Trim(pieces[Len(pieces)])
             pos == Find(kv, "=")
         IN  IF pos = 0 THEN before
             ELSE map_insert(before, Trim(Take(kv, pos - 1)), Trim(Drop(kv, pos)))
parse_cookie_str(text) == cookie_map_of(Split(text, ";"))

\* map.get(name).cloned().unwrap_or_default()
get_or_default(m, name) == IF <<name>> \in DOMAIN m THEN m[<<name>>] ELSE <<>>

account_of_cookie_map(m) ==
    Account(get_or_default(m, "DedeUserID"), get_or_default(m, "DedeUserID__ckMd5"),
            get_or_default(m, "SESSDATA"), get_or_default(m, "bili_jct"),
            get_or_default(m, "buvid3"))

set_account_from_cookie_str(t, in) ==
    \E c \in in.clients, text \in in.cookie_strs :
        /\ set_account_enter(t, "set_account_from_cookie_str", c,
                             account_of_cookie_map(parse_cookie_str(text)), in)
        /\ cookie_str' = [cookie_str EXCEPT ![t] = text]

\* --------------------------------------------------------- from_config
\* from_config: on the global client; the config is passed on to set_account
\* when four of its fields (not dede_user_id_ckmd5) are non-empty.
from_config(t, in) ==
    \E config \in in.accounts :
      /\ cookie_str' = [cookie_str EXCEPT ![t] = <<>>]
      /\ IF /\ config.dede_user_id # <<>>
            /\ config.sessdata # <<>>
            /\ config.bili_jct # <<>>
            /\ config.buvid3 # <<>>
         THEN set_account_enter(t, "from_config", "global",
                  Account(config.dede_user_id, config.dede_user_id_ckmd5,
                          config.sessdata, config.bili_jct, config.buvid3), in)
         ELSE /\ Begin(t, "from_config", "global", config, in)
              /\ Return(t, <<"unit">>)
              /\ UNCHANGED <<account, jar, mutex, k, cacheVars, wbiVars>>

\* ------------------------------------------------------ the read calls
get_account_call(t, in) ==
    \E c \in in.clients :
        /\ Begin(t, "get_account", c, AccEmpty, in)
        /\ cookie_str' = [cookie_str EXCEPT ![t] = <<>>]
        /\ mutex[c] = None
        /\ Return(t, <<"account", get_account(c)>>)
        /\ UNCHANGED <<account, jar, mutex, k, cacheVars, wbiVars>>

csrf_call(t, in) ==
    \E c \in in.clients :
        /\ Begin(t, "csrf", c, AccEmpty, in)
        /\ cookie_str' = [cookie_str EXCEPT ![t] = <<>>]
        /\ mutex[c] = None
        /\ Return(t, csrf(c))
        /\ UNCHANGED <<account, jar, mutex, k, cacheVars, wbiVars>>

has_login_cookies_call(t, in) ==
    \E c \in in.clients :
        /\ Begin(t, "has_login_cookies", c, AccEmpty, in)
        /\ cookie_str' = [cookie_str EXCEPT ![t] = <<>>]
        /\ Return(t, <<"bool", has_login_cookies(c)>>)
        /\ UNCHANGED <<account, jar, mutex, k, cacheVars, wbiVars>>

\* ------------------------------------------------- the signing key cache
\* now.format("%Y-%m-%d %H"): the hour as a text of one token.
hour_text(h) == <<h>>
\* format!("{}img_key", s) and format!("{}sub_key", s)
img_key_key(st) == st \o <<"img_key">>
sub_key_key(st) == st \o <<"sub_key">>

\* url.rsplit('/').next().unwrap().split('.').next().unwrap(): what follows
\* the last '/', up to its first '.'.
stem(url) ==
    LET seg == Drop(url, RFind(url, "/"))
        dot == Find(seg, ".")
    IN  IF dot = 0 THEN seg ELSE Take(seg, dot - 1)

\* get_wbi_sign2 begins (wbi.rs 117-121): the hour text and the two cache
\* keys are computed from the clock of this moment.
wbi_begin(t, in) ==
    \E c \in in.clients, ps \in in.params :
        /\ Begin(t, "get_wbi_sign2", c, AccEmpty, in)
        /\ cookie_str' = [cookie_str EXCEPT ![t] = <<>>]
        /\ retry' = [retry EXCEPT ![t] =
                        /\ op[t] = "get_wbi_sign2"
                        /\ ret[t][1] \in {"Err", "Cancelled"}
                        /\ fetched[t]
                        /\ s[t] = hour_text(clock)]
        /\ s' = [s EXCEPT ![t] = hour_text(clock)]
        /\ params' = [params EXCEPT ![t] = ps]
        /\ img_key' = [img_key EXCEPT ![t] = <<>>]
        /\ sub_key' = [sub_key EXCEPT ![t] = <<>>]
        /\ fetched' = [fetched EXCEPT ![t] = FALSE]
        /\ pc' = [pc EXCEPT ![t] = "rlock"]
        /\ ret' = [ret EXCEPT ![t] = <<"none">>]
        /\ UNCHANGED <<sessVars, k, cacheVars, signed, filler>>

\* WBI_KEY_MAP.read().await: granted while no writer holds the lock.
wbi_read_lock(t) ==
    /\ pc[t] = "rlock"
    /\ writer = None
    /\ readers' = readers \cup {t}
    /\ pc' = [pc EXCEPT ![t] = "lookup"]
    /\ UNCHANGED <<sessVars, op, self, arg, cookie_str, k, ret, pre, clock, WBI_KEY_MAP, writer, wbiVars>>

\* A lookup that, when the call's own hour has no entries, takes those of
\* any hour that has them.
wbi_lookup_any_hour(t) ==
    /\ pc[t] = "lookup"
    /\ readers' = readers \ {t}
    /\ IF \E h \in Hours : /\ img_key_key(hour_text(h)) \in DOMAIN WBI_KEY_MAP
                           /\ sub_key_key(hour_text(h)) \in DOMAIN WBI_KEY_MAP
       THEN LET h == IF /\ img_key_key(s[t]) \in DOMAIN WBI_KEY_MAP
                        /\ sub_key_key(s[t]) \in DOMAIN WBI_KEY_MAP
                     THEN s[t][1]
                     ELSE CHOOSE h \in Hours :
                              /\ img_key_key(hour_text(h)) \in DOMAIN WBI_KEY_MAP
                              /\ sub_key_key(hour_text(h)) \in DOMAIN WBI_KEY_MAP
            IN  /\ img_key' = [img_key EXCEPT ![t] = WBI_KEY_MAP[img_key_key(hour_text(h))]]
                /\ sub_key' = [sub_key EXCEPT ![t] = WBI_KEY_MAP[sub_key_key(hour_text(h))]]
                /\ pc' = [pc EXCEPT ![t] = "sign"]
       ELSE /\ pc' = [pc EXCEPT ![t] = "fetch"]
            /\ UNCHANGED <<img_key, sub_key>>
    /\ UNCHANGED <<sessVars, op, self, arg, cookie_str, k, ret, pre, clock, WBI_KEY_MAP, writer,
                   s, params, fetched, retry, signed, filler>>

\* A lookup that keeps the read guard on a miss.
wbi_lookup_keep_guard(t) ==
    /\ pc[t] = "lookup"
    /\ IF /\ img_key_key(s[t]) \in DOMAIN WBI_KEY_MAP
          /\ sub_key_key(s[t]) \in DOMAIN WBI_KEY_MAP
       THEN /\ img_key' = [img_key EXCEPT ![t] = WBI_KEY_MAP[img_key_key(s[t])]]
            /\ sub_key' = [sub_key EXCEPT ![t] = WBI_KEY_MAP[sub_key_key(s[t])]]
            /\ pc' = [pc EXCEPT ![t] = "sign"]
            /\ readers' = readers \ {t}
       ELSE /\ pc' = [pc EXCEPT ![t] = "fetch"]
            /\ UNCHANGED <<img_key, sub_key, readers>>
    /\ UNCHANGED <<sessVars, op, self, arg, cookie_str, k, ret, pre, clock, WBI_KEY_MAP, writer,
                   s, params, fetched, retry, signed, filler>>

\* A lookup in a cache kept per client: a hit only on entries that a call
\* on the same client put in.
wbi_lookup_own_client(t) ==
    /\ pc[t] = "lookup"
    /\ readers' = readers \ {t}
    /\ IF /\ img_key_key(s[t]) \in DOMAIN WBI_KEY_MAP
          /\ sub_key_key(s[t]) \in DOMAIN WBI_KEY_MAP
          /\ filler[s[t][1]] = Some(self[t])
       THEN /\ img_key' = [img_key EXCEPT ![t] = WBI_KEY_MAP[img_key_key(s[t])]]
            /\ sub_key' = [sub_key EXCEPT ![t] = WBI_KEY_MAP[sub_key_key(s[t])]]
            /\ pc' = [pc EXCEPT ![t] = "sign"]
       ELSE /\ pc' = [pc EXCEPT ![t] = "fetch"]
            /\ UNCHANGED <<img_key, sub_key>>
    /\ UNCHANGED <<sessVars, op, self, arg, cookie_str, k, ret, pre, clock, WBI_KEY_MAP, writer,
                   s, params, fetched, retry, signed, filler>>

\* The lookup under the read lock (wbi.rs 126-129): both entries present is a
\* hit, anything else a miss; either way the read guard is dropped before the
\* call goes on.
wbi_lookup(t) ==
    /\ pc[t] = "lookup"
    /\ readers' = readers \ {t}
    /\ IF /\ img_key_key(s[t]) \in DOMAIN WBI_KEY_MAP
          /\ sub_key_key(s[t]) \in DOMAIN WBI_KEY_MAP
       THEN /\ img_key' = [img_key EXCEPT ![t] = WBI_KEY_MAP[img_key_key(s[t])]]
            /\ sub_key' = [sub_key EXCEPT ![t] = WBI_KEY_MAP[sub_key_key(s[t])]]
            /\ pc' = [pc EXCEPT ![t] = "sign"]
       ELSE /\ pc' = [pc EXCEPT ![t] = "fetch"]
            /\ UNCHANGED <<img_key, sub_key>>
    /\ UNCHANGED <<sessVars, op, self, arg, cookie_str, k, ret, pre, clock, WBI_KEY_MAP, writer,
                   s, params, fetched, retry, signed, filler>>

\* The navigation request answers with data (wbi.rs 132-154): the two raw
\* keys are the stems of its two URLs.
wbi_fetch_ok(t, in) ==
    \E data \in in.nav :
        /\ pc[t] = "fetch"
        /\ img_key' = [img_key EXCEPT ![t] = stem(data.img_url)]
        /\ sub_key' = [sub_key EXCEPT ![t] = stem(data.sub_url)]
        /\ fetched' = [fetched EXCEPT ![t] = TRUE]
        /\ pc' = [pc EXCEPT ![t] = "wlock"]
        /\ UNCHANGED <<sessVars, op, self, arg, cookie_str, k, ret, pre, cacheVars,
                       s, params, retry, signed, filler>>

\* A failing request that leaves an empty image-key entry behind.
wbi_fetch_fail_partial(t) ==
    \E e \in {"Transport", "Parse"} :
        /\ pc[t] = "fetch"
        /\ fetched' = [fetched EXCEPT ![t] = TRUE]
        /\ WBI_KEY_MAP' = IF e = "Parse"
                          THEN map_insert(WBI_KEY_MAP, img_key_key(s[t]), <<>>)
                          ELSE WBI_KEY_MAP
        /\ Return(t, <<"Err", e>>)
        /\ UNCHANGED <<sessVars, op, self, arg, cookie_str, k, pre, clock, readers, writer,
                       s, params, img_key, sub_key, retry, signed, filler>>

\* The navigation request fails (send_bpi's error), or answers without data:
\* the ? operators return the error.
wbi_fetch_fail(t) ==
    \E e \in {"Transport", "Parse"} :
        /\ pc[t] = "fetch"
        /\ fetched' = [fetched EXCEPT ![t] = TRUE]
        /\ Return(t, <<"Err", e>>)
        /\ UNCHANGED <<sessVars, op, self, arg, cookie_str, k, pre, cacheVars,
                       s, params, img_key, sub_key, retry, signed, filler>>

\* WBI_KEY_MAP.write().await: granted while nobody holds the lock.
wbi_write_lock(t) ==
    /\ pc[t] = "wlock"
    /\ writer = None
    /\ readers = {}
    /\ writer' = Some(t)
    /\ pc' = [pc EXCEPT ![t] = "insert_img"]
    /\ UNCHANGED <<sessVars, op, self, arg, cookie_str, k, ret, pre, clock, WBI_KEY_MAP, readers, wbiVars>>

\* An image-key insert after which the write guard is let go, the
\* subtitle-key insert following without it.
wbi_insert_img_unlock(t) ==
    /\ pc[t] = "insert_img"
    /\ WBI_KEY_MAP' = map_insert(WBI_KEY_MAP, img_key_key(s[t]), img_key[t])
    /\ writer' = None
    /\ pc' = [pc EXCEPT ![t] = "insert_sub"]
    /\ UNCHANGED <<sessVars, op, self, arg, cookie_str, k, ret, pre, clock, readers, wbiVars>>

\* map.insert(img_key_key.clone(), img.clone())
wbi_insert_img(t) ==
    /\ pc[t] = "insert_img"
    /\ WBI_KEY_MAP' = map_insert(WBI_KEY_MAP, img_key_key(s[t]), img_key[t])
    /\ pc' = [pc EXCEPT ![t] = "insert_sub"]
    /\ UNCHANGED <<sessVars, op, self, arg, cookie_str, k, ret, pre, clock, readers, writer, wbiVars>>

\* map.insert(sub_key_key.clone(), sub.clone()); the write guard is dropped
\* at the end of the block.
wbi_insert_sub(t, in) ==
    /\ pc[t] = "insert_sub"
    /\ WBI_KEY_MAP' = map_insert(WBI_KEY_MAP, sub_key_key(s[t]), sub_key[t])
    /\ writer' = None
    /\ pc' = [pc EXCEPT ![t] = "sign"]
    /\ filler' = IF in.who
                 THEN [filler EXCEPT ![s[t][1]] = Some(self[t])]
                 ELSE filler
    /\ UNCHANGED <<sessVars, op, self, arg, cookie_str, k, ret, pre, clock, readers,
                   s, params, img_key, sub_key, fetched, retry, signed>>

\* The parameters are collected and signed (wbi.rs 166-173); now is the
\* system time in seconds.
wbi_sign(t, in) ==
    \E now \in in.wts :
        /\ pc[t] = "sign"
        /\ Return(t, <<"Ok", sign_params(params[t], img_key[t], sub_key[t], now)>>)
        /\ signed' = IF s[t] = hour_text(clock) /\ signed[clock] = None
                     THEN [signed EXCEPT ![clock] = Some(<<img_key[t], sub_key[t]>>)]
                     ELSE signed
        /\ UNCHANGED <<sessVars, op, self, arg, cookie_str, k, pre, cacheVars,
                       s, params, img_key, sub_key, fetched, retry, filler>>

\* The caller drops the future at one of its await points: waiting for the
\* read lock, for the answer, or for the write lock.
wbi_cancel(t) ==
    /\ pc[t] \in {"rlock", "fetch", "wlock"}
    /\ fetched' = [fetched EXCEPT ![t] = (pc[t] # "rlock")]
    /\ Return(t, <<"Cancelled", pc[t]>>)
    /\ UNCHANGED <<sessVars, op, self, arg, cookie_str, k, pre, cacheVars,
                   s, params, img_key, sub_key, retry, signed, filler>>

\* str::parse::<u64>: the number a text of decimal digits writes, none for
\* the empty text and for a text with any other character in it.
RECURSIVE digits_value(_)
digits_value(text) ==
    IF text = <<>> THEN 0
    ELSE 10 * digits_value(SubSeq(text, 1, Len(text) - 1))
             + ((CHOOSE d \in 1..10 : Digits[d] = text[Len(text)]) - 1)
parse_u64(text) ==
    IF text # <<>> /\ \A i \in 1..Len(text) : \E d \in 1..10 : Digits[d] = text[i]
    THEN Some(digits_value(text))
    ELSE None

\* WbiData { wts, w_rid }
WbiData(wts, w_rid) == [wts |-> wts, w_rid |-> w_rid]

\* get_wbi_sign begins (wbi.rs 86-92): an empty parameter map, and the
\* navigation request is sent.
get_wbi_sign_begin(t, in) ==
    \E c \in in.clients :
        /\ Begin(t, "get_wbi_sign", c, AccEmpty, in)
        /\ cookie_str' = [cookie_str EXCEPT ![t] = <<>>]
        /\ retry' = [retry EXCEPT ![t] = FALSE]
        /\ params' = [params EXCEPT ![t] = <<>>]
        /\ img_key' = [img_key EXCEPT ![t] = <<>>]
        /\ sub_key' = [sub_key EXCEPT ![t] = <<>>]
        /\ fetched' = [fetched EXCEPT ![t] = FALSE]
        /\ pc' = [pc EXCEPT ![t] = "nav"]
        /\ ret' = [ret EXCEPT ![t] = <<"none">>]
        /\ UNCHANGED <<sessVars, k, cacheVars, s, signed, filler>>

\* What get_wbi_sign makes of the signed map (wbi.rs 100-111).
wbi_data_of(m) ==
    IF WTS \notin DOMAIN m \/ W_RID \notin DOMAIN m \/ parse_u64(m[WTS]) = None
    THEN <<"Err", "Parse">>
    ELSE <<"Ok", WbiData(parse_u64(m[WTS])[1], m[W_RID])>>

\* A get_wbi_sign that also leaves the keys it fetched in the cache, under
\* the hour of this moment.
get_wbi_sign_ok_caching(t, in) ==
    \E data \in in.nav, now \in in.wts :
        /\ pc[t] = "nav"
        /\ img_key' = [img_key EXCEPT ![t] = stem(data.img_url)]
        /\ sub_key' = [sub_key EXCEPT ![t] = stem(data.sub_url)]
        /\ fetched' = [fetched EXCEPT ![t] = TRUE]
        /\ WBI_KEY_MAP' = map_insert(map_insert(WBI_KEY_MAP,
                                                img_key_key(hour_text(clock)),
                                                stem(data.img_url)),
                                     sub_key_key(hour_text(clock)), stem(data.sub_url))
        /\ Return(t, wbi_data_of(enc_wbi([n \in {} |-> <<>>], stem(data.img_url),
                                         stem(data.sub_url), now)))
        /\ UNCHANGED <<sessVars, op, self, arg, cookie_str, k, pre, clock, readers, writer,
                       s, params, retry, signed, filler>>

\* The navigation request answers with data (wbi.rs 94-111): the keys are
\* the stems of its two URLs, the empty map is signed with them, and wts
\* (read back as a number) and w_rid are returned.  Nothing is awaited
\* after the answer.
get_wbi_sign_ok(t, in) ==
    \E data \in in.nav, now \in in.wts :
        /\ pc[t] = "nav"
        /\ img_key' = [img_key EXCEPT ![t] = stem(data.img_url)]
        /\ sub_key' = [sub_key EXCEPT ![t] = stem(data.sub_url)]
        /\ fetched' = [fetched EXCEPT ![t] = TRUE]
        /\ Return(t, wbi_data_of(enc_wbi([n \in {} |-> <<>>], stem(data.img_url),
                                         stem(data.sub_url), now)))
        /\ UNCHANGED <<sessVars, op, self, arg, cookie_str, k, pre, cacheVars,
                       s, params, retry, signed, filler>>

\* The navigation request fails, or answers without data (wbi.rs 92, 94).
get_wbi_sign_fail(t) ==
    \E e \in {"Transport", "Parse"} :
        /\ pc[t] = "nav"
        /\ fetched' = [fetched EXCEPT ![t] = TRUE]
        /\ Return(t, <<"Err", e>>)
        /\ UNCHANGED <<sessVars, op, self, arg, cookie_str, k, pre, cacheVars,
                       s, params, img_key, sub_key, retry, signed, filler>>

\* The caller drops the future while the answer is awaited.
get_wbi_sign_cancel(t) ==
    /\ pc[t] = "nav"
    /\ fetched' = [fetched EXCEPT ![t] = TRUE]
    /\ Return(t, <<"Cancelled", pc[t]>>)
    /\ UNCHANGED <<sessVars, op, self, arg, cookie_str, k, pre, cacheVars,
                   s, params, img_key, sub_key, retry, signed, filler>>

DirectStep(t, in) ==
    \/ get_wbi_sign_begin(t, in)
    \/ get_wbi_sign_ok(t, in)
    \/ get_wbi_sign_fail(t)
    \/ get_wbi_sign_cancel(t)

\* The wall clock passes into the next hour.
tick ==
    /\ clock < MaxHour
    /\ clock' = clock + 1
    /\ UNCHANGED <<sessVars, callVars, WBI_KEY_MAP, readers, writer, wbiVars>>

WbiStep(t, in) ==
    \/ wbi_begin(t, in)
    \/ wbi_read_lock(t)
    \/ wbi_lookup(t)
    \/ wbi_fetch_ok(t, in)
    \/ wbi_fetch_fail(t)
    \/ wbi_write_lock(t)
    \/ wbi_insert_img(t)
    \/ wbi_insert_sub(t, in)
    \/ wbi_sign(t, in)
    \/ wbi_cancel(t)

\* ------------------------------------------------------ specifications
SessionStep(t, in) ==
    \/ set_account(t, in)
    \/ add_cookies(t)
    \/ set_account_lock(t)
    \/ set_account_store(t)
    \/ clear_account(t, in)
    \/ clear_account_store(t)
    \/ set_account_from_cookie_str(t, in)
    \/ from_config(t, in)
    \/ get_account_call(t, in)
    \/ csrf_call(t, in)
    \/ has_login_cookies_call(t, in)

\* Concurrent callers of the session operations of the global client.
Next == \E t \in Threads : SessionStep(t, ConcIn)
Spec == Init /\ [][Next]_vars

\* One caller, one call after the other, on either client.
NextSeq == SessionStep(1, SeqIn)
SpecSeq == Init /\ [][NextSeq]_vars

\* One caller, one call after the other: signing calls while the clock runs,
\* between session calls.
NextWbiSeq == WbiStep(1, SeqWbiIn) \/ tick \/ SessionStep(1, SeqWbiIn)
SpecWbiSeq == Init /\ [][NextWbiSeq]_vars

\* Concurrent callers of get_wbi_sign2 while the clock runs.
NextWbi == (\E t \in Threads : WbiStep(t, ConcIn)) \/ tick
SpecWbi == Init /\ [][NextWbi]_vars

\* One caller, one call after the other, of get_wbi_sign and of
\* get_wbi_sign2, on either client, while the clock runs.
DirIn == [clients |-> Clients, accounts |-> {}, cookie_strs |-> {}, snap |-> TRUE,
          who |-> FALSE, params |-> {ParamsA}, wts |-> {1203}, nav |-> {NavA, NavB}]
NextDirect == WbiStep(1, DirIn) \/ DirectStep(1, DirIn) \/ tick
SpecDirect == Init /\ [][NextDirect]_vars

\* One caller, one call after the other, session calls and signing calls
\* on either client while the clock runs; each bucket remembers the client
\* whose call filled it.
ShareIn == [clients |-> Clients, accounts |-> {AccA, AccNoCk},
            cookie_strs |-> {CookieStrNoCk}, snap |-> TRUE, who |-> TRUE,
            params |-> {ParamsA}, wts |-> {1203}, nav |-> {NavA}]
NextShare == WbiStep(1, ShareIn) \/ SessionStep(1, ShareIn) \/ tick
SpecShare == Init /\ [][NextShare]_vars

\* Concurrent callers of get_wbi_sign2 under the scheduling the program
\* runs with: a task that can go on does (the lookup, the two inserts and
\* the signing have no await in them), and tokio's RwLock serves its waiters
\* in the order they came, so one that is waiting while the lock comes free
\* again and again gets it.  The answer of the navigation request is not
\* promised, and neither is that a caller calls.  All calls fall in one
\* hour and sign the empty parameter map: what is followed here is the
\* lock, not the query.
FairIn == [clients |-> {"global"}, accounts |-> {}, cookie_strs |-> {}, snap |-> FALSE,
           who |-> FALSE, params |-> {<<>>}, wts |-> {1203}, nav |-> {NavA}]
NextWbiFair == \E t \in Threads : WbiStep(t, FairIn)
SpecWbiFair ==
    /\ Init
    /\ [][NextWbiFair]_vars
    /\ \A t \in Threads :
           /\ SF_vars(wbi_read_lock(t))
           /\ WF_vars(wbi_lookup(t))
           /\ SF_vars(wbi_write_lock(t))
           /\ WF_vars(wbi_insert_img(t))
           /\ WF_vars(wbi_insert_sub(t, FairIn))
           /\ WF_vars(wbi_sign(t, FairIn))

\* The signing step alone, over the parameter lists of at most MaxParams
\* pairs of these names and values, for a call that found its keys cached.
MaxParams == 2
SignNames == {<<"a">>, <<"b", "!">>, WTS, W_RID}
SignValues == {<<>>, <<"(", "1", ")">>, <<"a", "*", "'", "b", "!", " ">>, <<"z">>}
SignParams == UNION {[1..n -> SignNames \X SignValues] : n \in 0..MaxParams}
SignIn == [clients |-> {"global"}, accounts |-> {}, cookie_strs |-> {}, snap |-> FALSE, who |-> FALSE,
           params |-> SignParams, wts |-> {0, 1203}, nav |-> {NavA, NavB}]

InitSign ==
    /\ account = [c \in Clients |-> None]
    /\ jar = [c \in Clients |-> EmptyJar]
    /\ mutex = [c \in Clients |-> None]
    /\ \E ps \in SignIn.params, data \in SignIn.nav :
          /\ params = [t \in Threads |-> IF t = 1 THEN ps ELSE <<>>]
          /\ img_key = [t \in Threads |-> IF t = 1 THEN stem(data.img_url) ELSE <<>>]
          /\ sub_key = [t \in Threads |-> IF t = 1 THEN stem(data.sub_url) ELSE <<>>]
          /\ WBI_KEY_MAP = map_insert(map_insert([x \in {} |-> <<>>],
                                                 img_key_key(hour_text(0)), stem(data.img_url)),
                                      sub_key_key(hour_text(0)), stem(data.sub_url))
    /\ pc = [t \in Threads |-> IF t = 1 THEN "sign" ELSE "idle"]
    /\ op = [t \in Threads |-> IF t = 1 THEN "get_wbi_sign2" ELSE "none"]
    /\ self = [t \in Threads |-> "global"]
    /\ arg = [t \in Threads |-> AccEmpty]
    /\ cookie_str = [t \in Threads |-> <<>>]
    /\ k = [t \in Threads |-> 1]
    /\ ret = [t \in Threads |-> <<"none">>]
    /\ pre = [t \in Threads |-> None]
    /\ clock = 0
    /\ readers = {}
    /\ writer = None
    /\ s = [t \in Threads |-> IF t = 1 THEN hour_text(0) ELSE <<>>]
    /\ fetched = [t \in Threads |-> FALSE]
    /\ retry = [t \in Threads |-> FALSE]
    /\ signed = [h \in Hours |-> None]
    /\ filler = [h \in Hours |-> None]

NextSign == wbi_sign(1, SignIn)
SpecSign == InitSign /\ [][NextSign]_vars

\* One caller of the session operations, given cookie strings of every
\* shape: all five names; one left out; one with an empty or a blank value;
\* a name in other letters; a piece without '='; a value with '=' in it; a
\* name repeated, the last time with an empty value; the empty string.
CookieStrEmptyJct ==
    <<"DedeUserID", "=", "1", ";", "DedeUserID__ckMd5", "=", "m", ";",
      "SESSDATA", "=", "s", ";", "bili_jct", "=", ";", "buvid3", "=", "v">>
CookieStrBlankSess ==
    <<"DedeUserID", "=", "1", ";", "DedeUserID__ckMd5", "=", "m", ";",
      "SESSDATA", "=", " ", ";", "bili_jct", "=", "j", ";", "buvid3", "=", "v">>
CookieStrLower ==
    <<"DedeUserID", "=", "1", ";", "DedeUserID__ckMd5", "=", "m", ";",
      "sessdata", "=", "s", ";", "bili_jct", "=", "j", ";", "buvid3", "=", "v">>
CookieStrNoEq ==
    <<"DedeUserID", "=", "1", ";", "DedeUserID__ckMd5", "=", "m", ";",
      "SESSDATA", ";", "bili_jct", "=", "j", ";", "buvid3", "=", "v">>
CookieStrValEq ==
    <<" ", "DedeUserID", "=", "1", ";", "DedeUserID__ckMd5", "=", "m", ";", ";",
      "SESSDATA", "=", "s", "=", "x", ";", "bili_jct", "=", "j", ";", "buvid3", "=", "v", ";">>
CookieStrLastEmpty ==
    <<"buvid3", "=", "v", ";", "DedeUserID", "=", "1", ";", "DedeUserID__ckMd5", "=", "m", ";",
      "SESSDATA", "=", "s", ";", "bili_jct", "=", "j", ";", "buvid3", "=">>
CookieIn == [clients |-> Clients, accounts |-> {AccA, AccNoCk},
             cookie_strs |-> {CookieStrB, CookieStrNoCk, CookieStrEmptyJct, CookieStrBlankSess,
                              CookieStrLower, CookieStrNoEq, CookieStrValEq,
                              CookieStrLastEmpty, <<>>},
             snap |-> TRUE, who |-> FALSE,
             params |-> {ParamsA}, wts |-> {1203}, nav |-> {NavA}]
NextCookie == SessionStep(1, CookieIn)
SpecCookie == Init /\ [][NextCookie]_vars

\* The signing step with raw keys of many lengths: none, a few characters,
\* the 32 of a real key and more, so that their concatenation is shorter
\* than, as long as and longer than the table.
KeyChars == <<"0", "1", "2", "3", "4", "5", "6", "7", "8", "9", "a", "b", "c", "d",
              "i", "r", "s", "t", "w", "z", "A", "B", "C", "D", "E", "F", "Z">>
KeyText(n, off) == [i \in 1..n |-> KeyChars[((i + off) % Len(KeyChars)) + 1]]
MixinIn == [clients |-> {"global"}, accounts |-> {}, cookie_strs |-> {}, snap |-> FALSE,
            who |-> FALSE, params |-> {ParamsA}, wts |-> {0, 1203}, nav |-> {NavA},
            img_keys |-> {KeyText(n, 0) : n \in {0, 1, 3, 31, 32, 33, 40}},
            sub_keys |-> {KeyText(n, 5) : n \in {0, 2, 30, 31, 32, 40}}]

InitMixin ==
    /\ account = [c \in Clients |-> None]
    /\ jar = [c \in Clients |-> EmptyJar]
    /\ mutex = [c \in Clients |-> None]
    /\ \E ps \in MixinIn.params, img \in MixinIn.img_keys, sub \in MixinIn.sub_keys :
          /\ params = [t \in Threads |-> IF t = 1 THEN ps ELSE <<>>]
          /\ img_key = [t \in Threads |-> IF t = 1 THEN img ELSE <<>>]
          /\ sub_key = [t \in Threads |-> IF t = 1 THEN sub ELSE <<>>]
          /\ WBI_KEY_MAP = map_insert(map_insert([x \in {} |-> <<>>],
                                                 img_key_key(hour_text(0)), img),
                                      sub_key_key(hour_text(0)), sub)
    /\ pc = [t \in Threads |-> IF t = 1 THEN "sign" ELSE "idle"]
    /\ op = [t \in Threads |-> IF t = 1 THEN "get_wbi_sign2" ELSE "none"]
    /\ self = [t \in Threads |-> "global"]
    /\ arg = [t \in Threads |-> AccEmpty]
    /\ cookie_str = [t \in Threads |-> <<>>]
    /\ k = [t \in Threads |-> 1]
    /\ ret = [t \in Threads |-> <<"none">>]
    /\ pre = [t \in Threads |-> None]
    /\ clock = 0
    /\ readers = {}
    /\ writer = None
    /\ s = [t \in Threads |-> IF t = 1 THEN hour_text(0) ELSE <<>>]
    /\ fetched = [t \in Threads |-> FALSE]
    /\ retry = [t \in Threads |-> FALSE]
    /\ signed = [h \in Hours |-> None]
    /\ filler = [h \in Hours |-> None]

NextMixin == wbi_sign(1, MixinIn)
SpecMixin == InitMixin /\ [][NextMixin]_vars

\* Two signing steps side by side: two callers that found keys, each with a
\* parameter list that defines the same mapping as the other's.
PairNames == {<<"a">>, <<"b", "!">>, WTS}
PairValues == {<<"1">>, <<"(", "2">>}
PairParams == UNION {[1..n -> PairNames \X PairValues] : n \in 0..MaxParams}
PairIn == [clients |-> {"global"}, accounts |-> {}, cookie_strs |-> {}, snap |-> FALSE,
           who |-> FALSE, params |-> PairParams, wts |-> {0, 1203}, nav |-> {NavA, NavB}]
NamesOf(ps) == {ps[i][1] : i \in 1..Len(ps)}

\* The value the caller supplied last under name, in the pairs ps.
LastSupplied(ps, name) ==
    ps[CHOOSE i \in 1..Len(ps) :
           ps[i][1] = name /\ \A j \in (i + 1)..Len(ps) : ps[j][1] # name][2]

\* Two parameter lists define the same mapping: the same names, each with
\* the same value supplied last.
SameMapping(ps, qs) ==
    /\ NamesOf(ps) = NamesOf(qs)
    /\ \A name \in NamesOf(ps) : LastSupplied(ps, name) = LastSupplied(qs, name)

InitSignPair ==
    /\ account = [c \in Clients |-> None]
    /\ jar = [c \in Clients |-> EmptyJar]
    /\ mutex = [c \in Clients |-> None]
    /\ \E ps \in PairIn.params, qs \in PairIn.params, d1 \in PairIn.nav, d2 \in PairIn.nav :
          /\ SameMapping(ps, qs)
          /\ params = [t \in Threads |-> IF t = 1 THEN ps ELSE qs]
          /\ img_key = [t \in Threads |-> stem((IF t = 1 THEN d1 ELSE d2).img_url)]
          /\ sub_key = [t \in Threads |-> stem((IF t = 1 THEN d1 ELSE d2).sub_url)]
          /\ WBI_KEY_MAP = map_insert(map_insert([x \in {} |-> <<>>],
                                                 img_key_key(hour_text(0)), stem(d2.img_url)),
                                      sub_key_key(hour_text(0)), stem(d2.sub_url))
    /\ pc = [t \in Threads |-> "sign"]
    /\ op = [t \in Threads |-> "get_wbi_sign2"]
    /\ self = [t \in Threads |-> "global"]
    /\ arg = [t \in Threads |-> AccEmpty]
    /\ cookie_str = [t \in Threads |-> <<>>]
    /\ k = [t \in Threads |-> 1]
    /\ ret = [t \in Threads |-> <<"none">>]
    /\ pre = [t \in Threads |-> None]
    /\ clock = 0
    /\ readers = {}
    /\ writer = None
    /\ s = [t \in Threads |-> hour_text(0)]
    /\ fetched = [t \in Threads |-> FALSE]
    /\ retry = [t \in Threads |-> FALSE]
    /\ signed = [h \in Hours |-> None]
    /\ filler = [h \in Hours |-> None]

NextSignPair == \E t \in Threads : wbi_sign(t, PairIn)
SpecSignPair == InitSignPair /\ [][NextSignPair]_vars

\* ================================================================ claims
AllFieldsNonEmpty(a) ==
    /\ a.dede_user_id # <<>> /\ a.dede_user_id_ckmd5 # <<>> /\ a.sessdata # <<>>
    /\ a.bili_jct # <<>> /\ a.buvid3 # <<>>

\* The five cookies of client c carry the five fields of account a.
CookiesCarry(c, a) ==
    \A i \in 1..NCookies :
        /\ <<CookieNames[i]>> \in DOMAIN jar[c]
        /\ jar[c][<<CookieNames[i]>>] = CookieField(a, i)

\* Thread t has returned from a call of operation o.
Returned(t, o) == pc[t] = "idle" /\ op[t] = o

\* C1: in every reachable state, under every interleaving of set_account,
\* set_account_from_cookie_str, clear_account and from_config, the account
\* slot of a client is empty or holds an Account whose five fields are all
\* non-empty.
C1_SlotEmptyOrComplete ==
    \A c \in Clients : account[c] = None \/ AllFieldsNonEmpty(account[c][1])

\* C1 witness: from_config was given a config with an empty
\* dede_user_id_ckmd5 (which passes its own four-field check) and has
\* returned, while another thread's set_account installed an account.
C1_Witness ==
    \E t \in Threads, u \in Threads :
        /\ t # u
        /\ Returned(t, "from_config") /\ arg[t] = AccNoCk
        /\ Returned(u, "set_account") /\ account[self[u]] = Some(arg[u])

\* C2: once set_account(a) with a complete a has returned, with no other
\* operation in between, get_account returns a, has_login_cookies is true
\* and the cookie store holds the five cookies with the values of a's fields.
C2_SetThenGet ==
    \A t \in Threads :
        Returned(t, "set_account") /\ AllFieldsNonEmpty(arg[t])
            => /\ get_account(self[t]) = Some(arg[t])
               /\ has_login_cookies(self[t])
               /\ CookiesCarry(self[t], arg[t])

\* C3: set_account with an Account that has an empty field mutates nothing:
\* get_account, csrf and the cookie store are after the call what they were
\* before it, whatever the session was.
C3_IncompleteIsNoOp ==
    \A t \in Threads :
        Returned(t, "set_account") /\ ~AllFieldsNonEmpty(arg[t])
            => /\ pre[t] # None
               /\ \A c \in Clients :
                     /\ get_account(c) = pre[t][1].account[c]
                     /\ csrf(c) = csrf_of(pre[t][1].account[c])
                     /\ jar[c] = pre[t][1].jar[c]

\* C3 witness: an incomplete Account was submitted to a logged-in client.
C3_Witness ==
    \E t \in Threads :
        /\ Returned(t, "set_account") /\ arg[t] = AccNoCk
        /\ account[self[t]] = Some(AccB)

\* The step in which thread t calls csrf, which returns within the step.
CsrfStep(t) ==
    /\ pc[t] = "idle" /\ pc'[t] = "idle" /\ op'[t] = "csrf"
    /\ <<op[t], self[t], ret[t]>> # <<op'[t], self'[t], ret'[t]>>

\* C4: csrf returns MissingCsrf when no Account is active and otherwise the
\* active Account's bili_jct, which is never empty; so csrf succeeds exactly
\* when get_account returns an Account; and a csrf call changes nothing of
\* the session.
C4_Csrf ==
    /\ [](\A c \in Clients :
            /\ (csrf(c)[1] = "Ok") <=> (get_account(c) # None)
            /\ get_account(c) = None => csrf(c) = <<"Err", "MissingCsrf">>
            /\ get_account(c) # None
                  => csrf(c) = <<"Ok", get_account(c)[1].bili_jct>> /\ csrf(c)[2] # <<>>)
    /\ [][\A t \in Threads :
            CsrfStep(t)
                => /\ ret'[t] = IF get_account(self'[t]) = None
                                THEN <<"Err", "MissingCsrf">>
                                ELSE <<"Ok", get_account(self'[t])[1].bili_jct>>
                   /\ UNCHANGED <<account, jar, mutex, WBI_KEY_MAP>>]_vars

\* C4 witness: one thread's csrf failed and another's returned the token of
\* the account that is active.
C4_Witness ==
    \E t \in Threads, u \in Threads :
        /\ Returned(t, "csrf") /\ ret[t] = <<"Err", "MissingCsrf">>
        /\ Returned(u, "csrf") /\ account[self[u]] # None
        /\ ret[u] = <<"Ok", account[self[u]][1].bili_jct>>

\* C5: the cookie writes of set_account are atomic with the store of the
\* account: once all calls have returned, the five cookies of a client are
\* those of the Account get_account returns.
C5_CookiesMatchAccount ==
    (\A t \in Threads : pc[t] = "idle")
        => \A c \in Clients : get_account(c) # None => CookiesCarry(c, get_account(c)[1])

\* C6: on a miss the two keys are inserted under the hour that is current
\* when they are inserted: no step writes an entry keyed to another hour than
\* the clock's.
C6_InsertUnderCurrentHour ==
    [][\A key \in DOMAIN WBI_KEY_MAP' :
          (IF key \in DOMAIN WBI_KEY_MAP THEN WBI_KEY_MAP[key] # WBI_KEY_MAP'[key] ELSE TRUE)
              => key[1] = clock']_vars

\* Thread t is in a get_wbi_sign2 call and past its lookup.
PastLookup(t) ==
    op[t] = "get_wbi_sign2" /\ pc[t] \in {"fetch", "wlock", "insert_img", "insert_sub", "sign"}

\* C7: calls one after the other: once a call that began and ended within an
\* hour has succeeded, a later call of that hour sends no request and signs
\* with the same two keys; and a call signs without a request only with the
\* entries its own hour had when it began, so a call of an hour that has no
\* entries sends a request, whatever other hours have.
C7_HitWithinHourMissAcross ==
    \A t \in Threads :
        PastLookup(t)
            => /\ signed[s[t][1]] # None
                  => /\ pc[t] = "sign" /\ ~fetched[t]
                     /\ <<img_key[t], sub_key[t]>> = signed[s[t][1]][1]
               /\ pc[t] = "sign" /\ ~fetched[t]
                  => /\ pre[t] # None
                     /\ img_key_key(s[t]) \in DOMAIN pre[t][1].cache
                     /\ sub_key_key(s[t]) \in DOMAIN pre[t][1].cache
                     /\ img_key[t] = pre[t][1].cache[img_key_key(s[t])]
                     /\ sub_key[t] = pre[t][1].cache[sub_key_key(s[t])]

\* C7 witness: in the second hour, whose first call had to send a request
\* although the first hour's keys were cached, a later call is about to sign
\* with the keys of that first call without having sent a request.
C7_Witness ==
    \E t \in Threads :
        /\ PastLookup(t) /\ pc[t] = "sign" /\ ~fetched[t]
        /\ clock = 1 /\ s[t] = hour_text(1) /\ signed[1] # None
        /\ img_key_key(hour_text(0)) \in DOMAIN WBI_KEY_MAP
        /\ WBI_KEY_MAP[img_key_key(hour_text(0))] # img_key[t]

C9_EntriesNeverChange ==
    [][\A key \in DOMAIN WBI_KEY_MAP :
          key \in DOMAIN WBI_KEY_MAP' /\ WBI_KEY_MAP'[key] = WBI_KEY_MAP[key]]_vars

\* w is v with every ! ' ( ) * removed and all else kept in order.
RECURSIVE IsStripped(_, _)
IsStripped(w, v) ==
    IF v = <<>> THEN w = <<>>
    ELSE IF Head(v) \in {"!", "'", "(", ")", "*"} THEN IsStripped(w, Tail(v))
    ELSE w # <<>> /\ Head(w) = Head(v) /\ IsStripped(Tail(w), Tail(v))

IsDecimal(w) == w # <<>> /\ \A i \in 1..Len(w) : \E d \in 1..10 : w[i] = Digits[d]

\* C10: a successful get_wbi_sign2 returns pairs with unique names in
\* ascending order, among them wts (decimal digits), w_rid and every name the
\* caller supplied, unaltered; the value of a supplied name other than wts
\* and w_rid is the supplied value without its ! ' ( ) * characters.
C10_SignedPairs ==
    \A t \in Threads :
        Returned(t, "get_wbi_sign2") /\ ret[t][1] = "Ok"
            => LET out == ret[t][2]
                   ps == params[t]
               IN  /\ \A i \in 1..Len(out), j \in 1..Len(out) :
                          i < j => StrLess(out[i][1], out[j][1])
                   /\ \E i \in 1..Len(out) : out[i][1] = WTS /\ IsDecimal(out[i][2])
                   /\ \E i \in 1..Len(out) : out[i][1] = W_RID
                   /\ \A j \in 1..Len(ps) :
                          \E i \in 1..Len(out) :
                              /\ out[i][1] = ps[j][1]
                              /\ ps[j][1] \notin {WTS, W_RID}
                                    => IsStripped(out[i][2], LastSupplied(ps, ps[j][1]))

\* C10 witness: the caller supplied a name that holds a '!', with a value
\* that holds all five characters, and a wts of its own.
C10_Witness ==
    \E t \in Threads :
        /\ Returned(t, "get_wbi_sign2") /\ ret[t][1] = "Ok"
        /\ Len(params[t]) = 2
        /\ params[t][1] = <<<<"b", "!">>, <<"a", "*", "'", "b", "!", " ">>>>
        /\ params[t][2][1] = WTS
        /\ \E i \in 1..Len(ret[t][2]) :
               ret[t][2][i] = <<<<"b", "!">>, <<"a", "b", " ">>>>

\* The value the pairs out give name.
OutValue(out, name) == out[CHOOSE i \in 1..Len(out) : out[i][1] = name][2]

BothSigned ==
    \A t \in Threads : Returned(t, "get_wbi_sign2") /\ ret[t][1] = "Ok"

\* C11: two signing calls with the same two raw keys, the same timestamp and
\* parameter lists that define the same mapping, in whatever order, return
\* the same pairs: the same w_rid over the same canonical query (the digest
\* is a term over the text it was computed of) and the same sequence.
C11_OrderIndependent ==
    /\ BothSigned
    /\ img_key[1] = img_key[2] /\ sub_key[1] = sub_key[2]
    /\ OutValue(ret[1][2], WTS) = OutValue(ret[2][2], WTS)
    /\ SameMapping(params[1], params[2])
    => /\ ret[1] = ret[2]
       /\ OutValue(ret[1][2], W_RID) = OutValue(ret[2][2], W_RID)

\* C11 witness: the two callers gave the same two pairs in opposite orders
\* and got the same answer at the same second with the same keys.
C11_Witness ==
    /\ BothSigned
    /\ img_key[1] = img_key[2] /\ sub_key[1] = sub_key[2]
    /\ OutValue(ret[1][2], WTS) = OutValue(ret[2][2], WTS)
    /\ Len(params[1]) = 2 /\ params[1][1][1] # params[1][2][1]
    /\ params[2] = <<params[1][2], params[1][1]>>
    /\ ret[1] = ret[2]

\* The value a cookie string gives a name: that of the last of its pieces
\* (between the ';') that reads name=value, blanks around the piece, the name
\* and the value aside; the empty text when no piece does.
ValueIn(text, name) ==
    LET pieces == Split(text, ";")
        Names(i) == Find(Trim(pieces[i]), "=") # 0
                    /\ Trim(Take(Trim(pieces[i]), Find(Trim(pieces[i]), "=") - 1)) = <<name>>
        lasts == {i \in 1..Len(pieces) : Names(i) /\ \A j \in (i + 1)..Len(pieces) : ~Names(j)}
    IN  IF lasts = {} THEN <<>>
        ELSE LET kv == Trim(pieces[CHOOSE i \in lasts : TRUE])
             IN  Trim(Drop(kv, Find(kv, "=")))

AccountIn(text) ==
    [dede_user_id |-> ValueIn(text, "DedeUserID"),
     dede_user_id_ckmd5 |-> ValueIn(text, "DedeUserID__ckMd5"),
     sessdata |-> ValueIn(text, "SESSDATA"),
     bili_jct |-> ValueIn(text, "bili_jct"),
     buvid3 |-> ValueIn(text, "buvid3")]

\* C12: set_account_from_cookie_str hands set_account the Account whose
\* five fields are the values of the last occurrences of the five names in
\* the string (empty where a name is absent, other names ignored); when a
\* field is empty the session is as it was before the call, otherwise the
\* account is installed and its cookies are written as set_account does.
C12_CookieStrAsSetAccount ==
    \A t \in Threads :
        Returned(t, "set_account_from_cookie_str")
            => LET a == AccountIn(cookie_str[t])
                   c == self[t]
               IN  /\ arg[t] = a
                   /\ pre[t] # None
                   /\ IF AllFieldsNonEmpty(a)
                      THEN /\ account = [pre[t][1].account EXCEPT ![c] = Some(a)]
                           /\ jar = [pre[t][1].jar EXCEPT
                                        ![c] = load_cookies_from_account(@, a)]
                           /\ CookiesCarry(c, a)
                      ELSE account = pre[t][1].account /\ jar = pre[t][1].jar

\* C12 witness: after a string that named SESSDATA twice (and a name that is
\* no cookie of the account) installed an account on a client, a string
\* whose last buvid3 is empty was given to that client and changed nothing.
C12_Witness ==
    \E t \in Threads :
        /\ Returned(t, "set_account_from_cookie_str")
        /\ cookie_str[t] = CookieStrLastEmpty
        /\ account[self[t]] = Some(AccB)

\* C13: when clear_account has returned, whatever the session was, the
\* client has no Account: get_account is none and csrf is MissingCsrf; and
\* an empty slot is filled by nothing but the store of a set_account whose
\* Account is complete.
C13_ClearDetaches ==
    /\ [](\A t \in Threads :
            Returned(t, "clear_account")
                => /\ get_account(self[t]) = None
                   /\ csrf(self[t]) = <<"Err", "MissingCsrf">>)
    /\ [][\A c \in Clients :
            account[c] = None /\ account'[c] # None
                => \E t \in Threads :
                       /\ pc[t] = "store" /\ self[t] = c
                       /\ op[t] \in {"set_account", "set_account_from_cookie_str", "from_config"}
                       /\ AllFieldsNonEmpty(arg[t])
                       /\ account'[c] = Some(arg[t])]_vars

\* C13 witness: clear_account has returned on a client that had an account
\* when the call began.
C13_Witness ==
    \E t \in Threads :
        /\ Returned(t, "clear_account")
        /\ pre[t] # None /\ pre[t][1].account[self[t]] = Some(AccB)
        /\ account[self[t]] = None

\* C18: clear_account leaves the cookie store as it was: after it the five
\* cookies of an account that was set are still there, with the values they
\* had, and has_login_cookies is true, though get_account is none; and no
\* step ever removes a cookie: a store changes only in set_account's
\* add_cookies, which adds or overwrites.
C18_ClearKeepsCookies ==
    /\ [](\A t \in Threads :
            Returned(t, "clear_account")
                => /\ pre[t] # None
                   /\ jar = pre[t][1].jar
                   /\ get_account(self[t]) = None
                   /\ pre[t][1].account[self[t]] # None
                         => /\ has_login_cookies(self[t])
                            /\ \A i \in 1..NCookies :
                                   <<CookieNames[i]>> \in DOMAIN jar[self[t]])
    /\ [][\A c \in Clients :
            /\ DOMAIN jar[c] \subseteq DOMAIN jar'[c]
            /\ jar'[c] # jar[c]
                  => \E t \in Threads : pc[t] = "add_cookies" /\ self[t] = c]_vars

\* C18 witness: clear_account has returned on a client whose account had
\* been set; the store still holds that account's SESSDATA.
C18_Witness ==
    \E t \in Threads :
        /\ Returned(t, "clear_account")
        /\ pre[t] # None /\ pre[t][1].account[self[t]] = Some(AccA)
        /\ account[self[t]] = None
        /\ <<"SESSDATA">> \in DOMAIN jar[self[t]]
        /\ jar[self[t]][<<"SESSDATA">>] = AccA.sessdata

\* The text the digest of a returned w_rid was computed of.
DigestInput(out) == SubSeq(OutValue(out, W_RID), 2, Len(OutValue(out, W_RID)) - 1)

\* The query of returned pairs whose caller supplied no w_rid: the pairs but
\* w_rid, joined.
QueryOfOut(out) ==
    canonical_query([n \in NamesOf(out) \ {W_RID} |-> OutValue(out, n)])

\* The mixin key a call used: what follows the query in the digest's input.
MixinUsed(out) == SubSeq(DigestInput(out), Len(QueryOfOut(out)) + 1, Len(DigestInput(out)))

\* The table's entries below L, in table order.
EntriesBelow(L) == SelectSeq(MIXIN_KEY_TAB, LAMBDA i : i < L)

\* C14: the mixin key of a concatenated key of length L is the bytes at the
\* table's entries below L, in table order, at most the first 32 of them:
\* nothing is filled in for the entries at or beyond L, so its length is the
\* smaller of 32 and the number of entries below L, and 32 when L >= 64; the
\* table has 64 entries, a permutation of 0..63; the same keys give the same
\* mixin key.
C14_MixinKey ==
    /\ Len(MIXIN_KEY_TAB) = 64
    /\ {MIXIN_KEY_TAB[i] : i \in 1..64} = 0..63
    /\ \A t \in Threads :
           Returned(t, "get_wbi_sign2") /\ ret[t][1] = "Ok"
               => LET orig == img_key[t] \o sub_key[t]
                      L == Len(orig)
                      below == EntriesBelow(L)
                      n == IF Len(below) < 32 THEN Len(below) ELSE 32
                      mixin == MixinUsed(ret[t][2])
                  IN  /\ DigestInput(ret[t][2]) = QueryOfOut(ret[t][2]) \o mixin
                      /\ mixin = [j \in 1..n |-> orig[below[j] + 1]]
                      /\ Len(mixin) = n
                      /\ Len(below) = Cardinality({i \in 1..64 : MIXIN_KEY_TAB[i] < L})
                      /\ L >= 64 => Len(mixin) = 32

\* C14 witness: a concatenated key of five characters, three of the one key
\* and two of the other: the mixin key is five characters, none filled in.
C14_Witness ==
    \E t \in Threads :
        /\ Returned(t, "get_wbi_sign2") /\ ret[t][1] = "Ok"
        /\ Len(img_key[t]) = 3 /\ Len(sub_key[t]) = 2
        /\ Len(MixinUsed(ret[t][2])) = 5

\* The names in ascending order: each at the place of its rank.
Ascending(names) ==
    [i \in 1..Cardinality(names) |->
        CHOOSE n \in names : Cardinality({m \in names : StrLess(m, n)}) = i - 1]

RECURSIVE JoinAmp(_)
JoinAmp(parts) ==
    IF parts = <<>> THEN <<>>
    ELSE IF Len(parts) = 1 THEN parts[1]
    ELSE parts[1] \o <<"&">> \o JoinAmp(Tail(parts))

\* C15: the digest of w_rid is computed of: the pairs name=value, encoded,
\* of the caller's names and wts, each name once, in ascending byte order,
\* the values without ! ' ( ) *, joined by '&'; and right after it the mixin
\* key.  The w_rid being computed is no part of it (a w_rid the caller
\* supplied is one of the caller's entries).
C15_DigestInput ==
    \A t \in Threads :
        Returned(t, "get_wbi_sign2") /\ ret[t][1] = "Ok"
            => LET out == ret[t][2]
                   ps == params[t]
                   names == Ascending(NamesOf(ps) \cup {WTS})
                   value(n) == IF n = WTS THEN OutValue(out, WTS)
                               ELSE SelectSeq(LastSupplied(ps, n),
                                              LAMBDA c : c \notin {"!", "'", "(", ")", "*"})
                   parts == [i \in 1..Len(names) |->
                                url_encode(names[i]) \o <<"=">> \o url_encode(value(names[i]))]
               IN  OutValue(out, W_RID)
                       = <<"md5(">> \o JoinAmp(parts)
                             \o get_mixin_key(img_key[t] \o sub_key[t]) \o <<")">>

\* C15 witness: the caller supplied a w_rid of its own and a name that
\* sorts before it.
C15_Witness ==
    \E t \in Threads :
        /\ Returned(t, "get_wbi_sign2") /\ ret[t][1] = "Ok"
        /\ Len(params[t]) = 2
        /\ params[t][1] = <<W_RID, <<"z">>>>
        /\ params[t][2] = <<<<"b", "!">>, <<"(", "1", ")">>>>

\* C16: a call holds no lock on the cache while its request is out or while
\* it waits for the write lock; a call that waits for the read lock gets
\* past its lookup, whatever requests of others are pending; and a call whose
\* request was answered returns.
C16_NoLockAcrossFetch ==
    /\ [](\A t \in Threads :
            pc[t] \in {"fetch", "wlock"} => t \notin readers /\ writer # Some(t))
    /\ \A t \in Threads : (pc[t] = "rlock") ~> (pc[t] \notin {"rlock", "lookup"})
    /\ \A t \in Threads : (pc[t] = "wlock") ~> (pc[t] = "idle")

\* C16 witness: a call found its hour cached and returned while the request
\* of another call of that hour, which had missed, was still out.
C16_Witness ==
    \E t \in Threads, u \in Threads :
        /\ t # u
        /\ op[u] = "get_wbi_sign2" /\ pc[u] = "fetch"
        /\ Returned(t, "get_wbi_sign2") /\ ret[t][1] = "Ok" /\ ~fetched[t]
        /\ s[t] = s[u]

\* C17: get_wbi_sign goes around the key cache in both directions.  A call
\* that has returned has sent its one navigation request, whatever the
\* cache held for its hour, and the cache is as it was when the call began;
\* a successful call returns wts and w_rid and nothing else, wts the number
\* of seconds of the signing moment and w_rid the digest of "wts=<wts>"
\* followed by the mixin key of the answer's own two keys.
C17_DirectBypassesCache ==
    \A t \in Threads :
        /\ (op[t] = "get_wbi_sign" /\ pc[t] # "idle")
               => pc[t] = "nav" /\ ~fetched[t] /\ WBI_KEY_MAP = pre[t][1].cache
        /\ Returned(t, "get_wbi_sign")
               => /\ fetched[t]
                  /\ WBI_KEY_MAP = pre[t][1].cache
                  /\ ret[t][1] = "Ok"
                         => /\ DOMAIN ret[t][2] = {"wts", "w_rid"}
                            /\ ret[t][2].wts \in DirIn.wts
                            /\ ret[t][2].w_rid =
                                   md5_hex(WTS \o <<"=">> \o to_string(ret[t][2].wts)
                                               \o get_mixin_key(img_key[t] \o sub_key[t]))
                            /\ \E d \in DirIn.nav :
                                   /\ img_key[t] = stem(d.img_url)
                                   /\ sub_key[t] = stem(d.sub_url)

\* C17 witness: the cache holds both keys of the present hour, and a call
\* of get_wbi_sign in that hour has fetched all the same and signed with
\* another image key than the cached one.
C17_Witness ==
    \E t \in Threads :
        /\ Returned(t, "get_wbi_sign") /\ ret[t][1] = "Ok" /\ fetched[t]
        /\ img_key_key(hour_text(clock)) \in DOMAIN pre[t][1].cache
        /\ sub_key_key(hour_text(clock)) \in DOMAIN pre[t][1].cache
        /\ WBI_KEY_MAP[img_key_key(hour_text(clock))] # img_key[t]

\* The two raw keys of one navigation answer.
KeysOf(data) == <<stem(data.img_url), stem(data.sub_url)>>

\* C19: while any caller holds the read lock, every hour's bucket is whole:
\* its image-key entry is there exactly when its subtitle-key entry is, and
\* the two values are the two keys of one and the same answer, also when
\* callers that missed together were answered with different keys.
C19_BucketWholeForReaders ==
    readers # {}
        => \A h \in Hours :
               /\ img_key_key(hour_text(h)) \in DOMAIN WBI_KEY_MAP
                      <=> sub_key_key(hour_text(h)) \in DOMAIN WBI_KEY_MAP
               /\ img_key_key(hour_text(h)) \in DOMAIN WBI_KEY_MAP
                      => \E d \in ConcIn.nav :
                             <<WBI_KEY_MAP[img_key_key(hour_text(h))],
                               WBI_KEY_MAP[sub_key_key(hour_text(h))]>> = KeysOf(d)

\* C19 witness: a caller holds the read lock on a bucket that one caller's
\* answer filled, while another caller of the same hour, answered with
\* other keys, waits for the write lock to put them in.
C19_Witness ==
    \E t \in Threads, u \in Threads :
        /\ t \in readers
        /\ img_key_key(s[t]) \in DOMAIN WBI_KEY_MAP
        /\ pc[u] = "wlock" /\ s[u] = s[t]
        /\ <<img_key[u], sub_key[u]>> # <<WBI_KEY_MAP[img_key_key(s[t])],
                                          WBI_KEY_MAP[sub_key_key(s[t])]>>

\* C20: a client made by new_local starts with no account and an empty
\* cookie store, and the session state is each client's own: no step of a
\* call on one client changes what get_account, csrf or has_login_cookies
\* answer on another.  The key cache is one for all clients: a
\* get_wbi_sign2 call on any client whose hour had both entries when it
\* began signs without a request, whichever client's call put them in.
C20_OwnSessionSharedCache ==
    /\ account["local"] = None /\ jar["local"] = EmptyJar
    /\ [][\A t \in Threads, d \in Clients :
            (pc'[t] # pc[t] /\ self'[t] # d)
                => /\ get_account(d)' = get_account(d)
                   /\ csrf(d)' = csrf(d)
                   /\ has_login_cookies(d)' = has_login_cookies(d)]_vars
    /\ [](\A t \in Threads :
            (/\ PastLookup(t)
             /\ pre[t] # None
             /\ img_key_key(s[t]) \in DOMAIN pre[t][1].cache
             /\ sub_key_key(s[t]) \in DOMAIN pre[t][1].cache)
                => /\ pc[t] = "sign" /\ ~fetched[t]
                   /\ img_key[t] = pre[t][1].cache[img_key_key(s[t])]
                   /\ sub_key[t] = pre[t][1].cache[sub_key_key(s[t])])

\* C20 witness: a signing call on one client is about to sign, without a
\* request, with the entries that a call on the other client put in, while
\* the two clients hold different accounts.
C20_Witness ==
    \E t \in Threads :
        /\ PastLookup(t) /\ pc[t] = "sign" /\ ~fetched[t]
        /\ filler[s[t][1]] # None /\ filler[s[t][1]] # Some(self[t])
        /\ \E d \in Clients : d # self[t] /\ account[d] # None /\ account[self[t]] = None

====
